---- MODULE Spec2Model ----
(***************************************************************************)
(* modfin/strut: the type reflector (schema.From / typeToSchema /          *)
(* fieldToSchema), the operation options of package with, and the route    *)
(* registrations Get / Post / Put / Delete that aggregate operations and   *)
(* component schemas into the Definition.                                  *)
(*                                                                         *)
(* Go pointers and maps are references: Operation, OpResponse, RequestBody *)
(* objects and the Responses maps live in a heap and are named by their    *)
(* index, so that an object handed to two registrations is one object.     *)
(***************************************************************************)
EXTENDS Integers, Sequences, FiniteSets, TLC

VARIABLES
    heap,      \* the objects reachable through pointers and maps
    paths,     \* Definition.Paths: path -> verb -> *Operation (0 is nil)
    schemas,   \* Definition.Components.Schemas: name -> schema node
    mux,       \* the routes handed to the Mux: <<verb, path>> -> handler types
    regs,      \* history: the registration calls that returned, in order
    panicked,  \* a registration call panicked: the process is going down
    arg,       \* reflector run: the type handed to schema.From
    ret,       \* reflector run: what schema.From gave back
    info,      \* Definition.Info and Definition.Servers
    reqs       \* the inbound requests: each one's place in its handler and
               \* what has been written to its ResponseWriter

vars == <<heap, paths, schemas, mux, regs, panicked, arg, ret, info, reqs>>

None == <<>>
Some(x) == <<x>>

(***************************************************************************)
(* Bounds of the model.                                                    *)
(***************************************************************************)
MaxRegs == 2
MaxPtrDepth == 3

(***************************************************************************)
(* reflect.Type descriptors.  elem holds the element type of a pointer,    *)
(* slice, array or map (None otherwise); fields the fields of a struct.    *)
(* pkg is PkgPath() split at "/"; name is Name(): both are empty for an    *)
(* unnamed type (pointer, slice, array, map, anonymous struct).            *)
(***************************************************************************)
Type(kind, name, pkg, elem, fields) ==
    [kind |-> kind, name |-> name, pkg |-> pkg, elem |-> elem, fields |-> fields]

Builtin(kind) == Type(kind, kind, <<>>, None, <<>>)
PtrTo(t) == Type("ptr", "", <<>>, Some(t), <<>>)
SliceOf(t) == Type("slice", "", <<>>, Some(t), <<>>)
ArrayOf(t) == Type("array", "", <<>>, Some(t), <<>>)
MapOf(t) == Type("map", "", <<>>, Some(t), <<>>)
Interface == Type("interface", "", <<>>, None, <<>>)
Chan == Type("chan", "", <<>>, None, <<>>)
Elem(t) == t.elem[1]

\* A struct field: its Go name, whether it is exported, the json tag split at
\* "," (<<"">> when the tag is absent), the json-enum tag split at "," (<<>>
\* when absent or empty), the other tags by key, and its type.
Field(name, exported, json, enum, tags, type) ==
    [Name |-> name, Exported |-> exported, Json |-> json, Enum |-> enum,
     Tags |-> tags, Type |-> type]

NoTags == [k \in {} |-> ""]
Plain(name, type) == Field(name, TRUE, <<"">>, <<>>, NoTags, type)
TagGet(field, key) == IF key \in DOMAIN field.Tags THEN field.Tags[key] ELSE ""

(***************************************************************************)
(* schema.JSON                                                             *)
(***************************************************************************)
EmptyJSON ==
    [Ref |-> "", Defs |-> None, Description |-> "", Type |-> "", Nullable |-> FALSE,
     Properties |-> None, AdditionalProperties |-> None, Items |-> None,
     Enum |-> <<>>, Required |-> None,
     Maximum |-> None, Minimum |-> None,
     ExclusiveMaximum |-> None, ExclusiveMinimum |-> None,
     MaxLength |-> None, MinLength |-> None, Pattern |-> None, Format |-> None,
     MaxItems |-> None, MinItems |-> None]

\* map[string]*JSON: put overwrites an existing key
MapPut(m, k, v) == [x \in DOMAIN m \cup {k} |-> IF x = k THEN v ELSE m[x]]
EmptyMap == [x \in {} |-> 0]

(***************************************************************************)
(* strconv, strings: the literals the model's tags use.                    *)
(* Floats are held in hundredths.                                          *)
(***************************************************************************)
FloatLits ==
    [s \in {"0.01", "1", "1.0", "90", "-90", "2.5", "5", "0"} |->
        CASE s = "0.01" -> 1
          [] s = "0" -> 0
          [] s = "5" -> 500
          [] s = "1" -> 100
          [] s = "1.0" -> 100
          [] s = "90" -> 9000
          [] s = "-90" -> -9000
          [] s = "2.5" -> 250]
IntLits == [s \in {"1", "5", "90", "-90", "0"} |->
        CASE s = "1" -> 1 [] s = "5" -> 5 [] s = "90" -> 90 [] s = "-90" -> -90
          [] s = "0" -> 0]
BoolLits == [s \in {"true", "false", "1", "0", "TRUE", "T"} |-> s \in {"true", "1", "TRUE", "T"}]

\* strings.TrimSpace
TrimSpace(s) ==
    CASE s = " green" -> "green"
      [] s = " 5" -> "5"
      [] s = " " -> ""
      [] OTHER -> s

\* strings.Contains(s, "omitempty")
ContainsOmitempty(s) == s \in {"omitempty", "omitempty_flag", "noomitempty"}

\* mutant of getFloat64Ptr: a value that does not parse gives the bound zero
getFloat64PtrZero(v) ==
    IF v = "" THEN None
    ELSE IF v \in DOMAIN FloatLits THEN Some(FloatLits[v]) ELSE Some(0)

getFloat64Ptr(v) ==
    IF v # "" /\ v \in DOMAIN FloatLits THEN Some(FloatLits[v]) ELSE None

getIntFromField(f, key) ==
    LET v == TagGet(f, key)
    IN IF v # "" /\ v \in DOMAIN IntLits THEN Some(IntLits[v]) ELSE None

\* an enum entry: interface{} holding a string, int64, float64 or bool, or nil
EnumNil == [k |-> "nil", s |-> "", n |-> 0, b |-> FALSE]
EnumStr(s) == [k |-> "string", s |-> s, n |-> 0, b |-> FALSE]
EnumInt(n) == [k |-> "int64", s |-> "", n |-> n, b |-> FALSE]
EnumFloat(n) == [k |-> "float64", s |-> "", n |-> n, b |-> FALSE]
EnumBool(b) == [k |-> "bool", s |-> "", n |-> 0, b |-> b]

StringKinds == {"string"}
SignedKinds == {"int", "int8", "int16", "int32", "int64"}
UnsignedKinds == {"uint", "uint8", "uint16", "uint32", "uint64"}
FloatKinds == {"float32", "float64"}

\* the kind parseEnum switches on: the field's type, one pointer and then one
\* slice unwrapped
enumKind(t) == IF t.kind = "slice" THEN Elem(t).kind ELSE t.kind

parseToken(kind, v) ==
    CASE kind \in StringKinds -> EnumStr(v)
      [] kind \in SignedKinds ->
            IF v \in DOMAIN IntLits THEN EnumInt(IntLits[v]) ELSE EnumNil
      [] kind \in FloatKinds ->
            IF v \in DOMAIN FloatLits THEN EnumFloat(FloatLits[v]) ELSE EnumNil
      [] kind = "bool" ->
            IF v \in DOMAIN BoolLits THEN EnumBool(BoolLits[v]) ELSE EnumNil
      [] OTHER -> EnumNil

parseEnum(enumStr, field) ==
    [i \in 1..Len(enumStr) |->
        parseToken(enumKind(IF field.Type.kind = "ptr" THEN Elem(field.Type)
                            ELSE field.Type),
                   TrimSpace(enumStr[i]))]

(***************************************************************************)
(* fieldToSchema, in the order of its statements: each takes the schema    *)
(* the statements before it left.                                          *)
(***************************************************************************)
SetIf(s, f, v) == IF v # None THEN [s EXCEPT ![f] = v] ELSE s
StrPtr(v) == IF v # "" THEN Some(v) ELSE None

tagDescription(s, field) ==
    IF TagGet(field, "json-description") # ""
    THEN [s EXCEPT !.Description = TagGet(field, "json-description")] ELSE s

tagType(s, field) ==
    IF TagGet(field, "json-type") # ""
    THEN [s EXCEPT !.Type = TagGet(field, "json-type")] ELSE s

tagNumber(s, field) ==
    IF s.Type \in {"number", "integer"}
    THEN SetIf(SetIf(SetIf(SetIf(s,
            "Maximum", getFloat64Ptr(TagGet(field, "json-maximum"))),
            "Minimum", getFloat64Ptr(TagGet(field, "json-minimum"))),
            "ExclusiveMaximum", getFloat64Ptr(TagGet(field, "json-exclusive-maximum"))),
            "ExclusiveMinimum", getFloat64Ptr(TagGet(field, "json-exclusive-minimum")))
    ELSE s

tagArray(s, field) ==
    IF s.Type = "array"
    THEN SetIf(SetIf(s,
            "MaxItems", getIntFromField(field, "json-max-items")),
            "MinItems", getIntFromField(field, "json-min-items"))
    ELSE s

tagString(s, field) ==
    IF s.Type = "string"
    THEN SetIf(SetIf(SetIf(SetIf(s,
            "MaxLength", getIntFromField(field, "json-max-length")),
            "MinLength", getIntFromField(field, "json-min-length")),
            "Format", StrPtr(TagGet(field, "json-format"))),
            "Pattern", StrPtr(TagGet(field, "json-pattern")))
    ELSE s

tagEnum(s, field) ==
    CASE s.Type = "array" ->
            IF field.Enum # <<>> /\ s.Items # None /\ Len(s.Items[1].Enum) = 0
               /\ s.Items[1].Type \in {"string", "number", "integer", "boolean"}
            THEN [s EXCEPT !.Items = Some([s.Items[1] EXCEPT
                                            !.Enum = parseEnum(field.Enum, field)])]
            ELSE s
      [] s.Type \in {"string", "number", "integer", "boolean"} ->
            IF field.Enum # <<>> THEN [s EXCEPT !.Enum = parseEnum(field.Enum, field)]
            ELSE s
      [] OTHER -> s

(***************************************************************************)
(* typeToSchema                                                            *)
(***************************************************************************)
RECURSIVE typeToSchema(_)
RECURSIVE fieldToSchema(_)
RECURSIVE structFields(_, _, _)

\* mutant of fieldName: the json tag does not rename the field
fieldNameGo(field) == field.Name

\* the external name of a field: the json tag's first part, else the Go name
fieldName(field) == IF field.Json[1] = "" THEN field.Name ELSE field.Json[1]

\* strings.Contains(jsonTag, "omitempty")
hasOmitempty(field) == \E j \in 1..Len(field.Json) : ContainsOmitempty(field.Json[j])

\* one pass of the loop over t.Field(i), given the field's schema
addField(schema, field, fieldSchema) ==
    IF ~field.Exported \/ field.Json[1] = "-" THEN schema
    ELSE [schema EXCEPT
            !.Required = IF hasOmitempty(field) THEN @
                         ELSE Some(Append(@[1], fieldName(field))),
            !.Properties = Some(MapPut(@[1], fieldName(field), fieldSchema))]

structFields(t, i, schema) ==
    IF i > Len(t.fields) THEN schema
    ELSE structFields(t, i + 1, addField(schema, t.fields[i], fieldToSchema(t.fields[i])))

\* if len(schema.Required) == 0 { schema.Required = nil }
dropEmptyRequired(s) == IF Len(s.Required[1]) = 0 THEN [s EXCEPT !.Required = None] ELSE s

\* the switch on t.Kind(), t with one pointer unwrapped
kindToSchema(t, schema) ==
    CASE t.kind = "map" ->
            [schema EXCEPT !.Type = "object",
                           !.Properties = Some(EmptyMap),
                           !.AdditionalProperties = Some(typeToSchema(Elem(t)))]
      [] t.kind = "struct" ->
            dropEmptyRequired(structFields(t, 1,
                [schema EXCEPT !.Type = "object",
                               !.Properties = Some(EmptyMap),
                               !.Required = Some(<<>>)]))
      [] t.kind \in {"slice", "array"} ->
            [schema EXCEPT !.Type = "array",
                           !.Items = Some(typeToSchema(Elem(t)))]
      [] t.kind \in StringKinds -> [schema EXCEPT !.Type = "string"]
      [] t.kind \in SignedKinds \cup UnsignedKinds -> [schema EXCEPT !.Type = "integer"]
      [] t.kind \in FloatKinds -> [schema EXCEPT !.Type = "number"]
      [] t.kind = "bool" -> [schema EXCEPT !.Type = "boolean"]
      [] OTHER -> schema

typeToSchema(t) ==
    IF t.kind = "ptr"
    THEN kindToSchema(Elem(t), [EmptyJSON EXCEPT !.Nullable = TRUE])
    ELSE kindToSchema(t, EmptyJSON)

\* mutant of fieldToSchema: the json-type tag is read after the bound tags,
\* which then go by the kind the Go type gave
fieldToSchemaTypeLast(field) ==
    tagEnum(tagType(tagString(tagArray(tagNumber(tagDescription(
        typeToSchema(field.Type), field), field), field), field), field), field)

fieldToSchema(field) ==
    tagEnum(tagString(tagArray(tagNumber(tagType(tagDescription(
        typeToSchema(field.Type), field), field), field), field), field), field)

(***************************************************************************)
(* schema.From.  reflect.TypeOf of a nil interface value is nil, and       *)
(* t.Kind() on it panics: a value of interface type carries no dynamic     *)
(* type when it is the zero value.                                         *)
(***************************************************************************)
Panic == [panic |-> TRUE]

FromPanics(t) == t.kind = "interface"

From(t) ==
    IF FromPanics(t) THEN Panic
    ELSE IF t.kind = "ptr" THEN [typeToSchema(Elem(t)) EXCEPT !.Nullable = TRUE]
    ELSE [typeToSchema(t) EXCEPT !.Nullable = FALSE]

(***************************************************************************)
(* The heap.  ops: Operation structs; rmaps: the map[string]*OpResponse    *)
(* values; resps: OpResponse structs; bodies: RequestBody structs.  An     *)
(* object's name is its index; 0 is nil.  A Content map is held in its     *)
(* owner: no two objects of the model share one.                           *)
(***************************************************************************)
EmptyOperation ==
    [Tags |-> <<>>, Summary |-> "", Description |-> "", OperationID |-> "",
     Parameters |-> <<>>, RequestBody |-> 0, Responses |-> 0, Deprecated |-> FALSE]

EmptyResponse == [Description |-> "", Content |-> None]
EmptyRequestBody == [Required |-> FALSE, Description |-> "", Content |-> None]
MediaType(schema, example) == [Schema |-> schema, Example |-> example]
EmptyPath == [Summary |-> "", Description |-> "", Parameters |-> <<>>,
              Get |-> 0, Post |-> 0, Put |-> 0, Delete |-> 0]

Param(name, in, description, required, schema) ==
    [Name |-> name, In |-> in, Description |-> description, Required |-> required,
     Deprecated |-> FALSE, AllowEmptyValue |-> FALSE, Schema |-> schema]

\* m[k] of a Go map of pointers: nil when the key is absent
MapGet(m, k) == IF k \in DOMAIN m THEN m[k] ELSE 0

\* fmt.Sprintf("%d", statusCode)
StatusString(code) ==
    CASE code = 200 -> "200"
      [] code = 400 -> "400"
      [] code = 404 -> "404"
      [] code = 418 -> "418"

(***************************************************************************)
(* package with: the options.  An option is the closure the constructor    *)
(* returns; ApplyOpt runs it on the operation op of heap h.                *)
(***************************************************************************)
OptDescription(d) == [opt |-> "Description", s |-> d]
OptOperationId(id) == [opt |-> "OperationId", s |-> id]
OptSummary(s) == [opt |-> "Summary", s |-> s]
OptParam(params) == [opt |-> "Param", params |-> params]
OptQueryParam(t, name, d) == [opt |-> "QueryParam", t |-> t, name |-> name, s |-> d]
OptPathParam(t, name, d) == [opt |-> "PathParam", t |-> t, name |-> name, s |-> d]
OptCookieParam(t, name, d) == [opt |-> "CookieParam", t |-> t, name |-> name, s |-> d]
OptHeaderParam(t, name, d) == [opt |-> "HeaderParam", t |-> t, name |-> name, s |-> d]
OptDeprecated == [opt |-> "Deprecated"]
OptTags(tags) == [opt |-> "Tags", tags |-> tags]
OptOperation(tpl) == [opt |-> "Operation", tpl |-> tpl]
OptResponse(code, res) == [opt |-> "Response", code |-> code, res |-> res]
OptResponseDescription(code, d) == [opt |-> "ResponseDescription", code |-> code, s |-> d]
OptRequestDescription(d) == [opt |-> "RequestDescription", s |-> d]

\* if op.Responses == nil { op.Responses = map[string]*OpResponse{} }
EnsureResponses(h, op) ==
    IF h.ops[op].Responses # 0 THEN h
    ELSE [h EXCEPT !.rmaps = Append(@, EmptyMap),
                   !.ops[op].Responses = Len(h.rmaps) + 1]

Description(h, op, o) == [h EXCEPT !.ops[op].Description = o.s]

\* mutant of OperationId: an operationId that is set is kept
OperationIdKept(h, op, o) ==
    IF h.ops[op].OperationID # "" THEN h ELSE [h EXCEPT !.ops[op].OperationID = o.s]

OperationId(h, op, o) == [h EXCEPT !.ops[op].OperationID = o.s]
Summary(h, op, o) == [h EXCEPT !.ops[op].Summary = o.s]
WithParam(h, op, o) == [h EXCEPT !.ops[op].Parameters = @ \o o.params]
TypedParam(h, op, o, in, required) ==
    [h EXCEPT !.ops[op].Parameters =
        Append(@, Param(o.name, in, o.s, required, Some(From(o.t))))]
QueryParam(h, op, o) == TypedParam(h, op, o, "query", FALSE)
PathParam(h, op, o) == TypedParam(h, op, o, "path", TRUE)
CookieParam(h, op, o) == TypedParam(h, op, o, "cookie", FALSE)
HeaderParam(h, op, o) == TypedParam(h, op, o, "header", FALSE)
Deprecated(h, op, o) == [h EXCEPT !.ops[op].Deprecated = TRUE]

\* mutant of Tags: the tags of the option replace those the operation has
TagsReplaced(h, op, o) == [h EXCEPT !.ops[op].Tags = o.tags]

Tags(h, op, o) == [h EXCEPT !.ops[op].Tags = @ \o o.tags]

\* *o = *op: the struct is copied, what its pointers and maps name is shared
Operation(h, op, o) == [h EXCEPT !.ops[op] = h.ops[o.tpl]]

\* mutant of EnsureResponse: the response is made anew even when the map
\* holds one under the code
EnsureResponseFresh(h, op, code) ==
    [h EXCEPT !.resps = Append(@, EmptyResponse),
              !.rmaps[h.ops[op].Responses] = MapPut(@, code, Len(h.resps) + 1)]

\* if op.Responses[code] == nil { op.Responses[code] = &OpResponse{} },
\* op.Responses being a map already
EnsureResponse(h, op, code) ==
    IF MapGet(h.rmaps[h.ops[op].Responses], code) # 0 THEN h
    ELSE [h EXCEPT !.resps = Append(@, EmptyResponse),
                   !.rmaps[h.ops[op].Responses] = MapPut(@, code, Len(h.resps) + 1)]

\* if op.RequestBody == nil { op.RequestBody = &RequestBody{} }
EnsureRequestBody(h, op) ==
    IF h.ops[op].RequestBody # 0 THEN h
    ELSE [h EXCEPT !.bodies = Append(@, EmptyRequestBody),
                   !.ops[op].RequestBody = Len(h.bodies) + 1]

\* the response the operation's map holds under code
ResponseAt(h, op, code) == h.rmaps[h.ops[op].Responses][code]

SetResponse(h, op, code, res) ==
    [h EXCEPT !.rmaps[h.ops[op].Responses] = MapPut(@, code, res)]

SetResponseDescription(h, op, code, d) ==
    [h EXCEPT !.resps[ResponseAt(h, op, code)].Description = d]

SetRequestDescription(h, op, d) ==
    [h EXCEPT !.bodies[h.ops[op].RequestBody].Description = d]

Response(h, op, o) ==
    SetResponse(EnsureResponses(h, op), op, StatusString(o.code), o.res)

ResponseDescription(h, op, o) ==
    SetResponseDescription(
        EnsureResponse(EnsureResponses(h, op), op, StatusString(o.code)),
        op, StatusString(o.code), o.s)

RequestDescription(h, op, o) ==
    SetRequestDescription(EnsureRequestBody(h, op), op, o.s)

ApplyOpt(h, op, o) ==
    CASE o.opt = "Description" -> Description(h, op, o)
      [] o.opt = "OperationId" -> OperationId(h, op, o)
      [] o.opt = "Summary" -> Summary(h, op, o)
      [] o.opt = "Param" -> WithParam(h, op, o)
      [] o.opt = "QueryParam" -> QueryParam(h, op, o)
      [] o.opt = "PathParam" -> PathParam(h, op, o)
      [] o.opt = "CookieParam" -> CookieParam(h, op, o)
      [] o.opt = "HeaderParam" -> HeaderParam(h, op, o)
      [] o.opt = "Deprecated" -> Deprecated(h, op, o)
      [] o.opt = "Tags" -> Tags(h, op, o)
      [] o.opt = "Operation" -> Operation(h, op, o)
      [] o.opt = "Response" -> Response(h, op, o)
      [] o.opt = "ResponseDescription" -> ResponseDescription(h, op, o)
      [] o.opt = "RequestDescription" -> RequestDescription(h, op, o)

(***************************************************************************)
(* package strut: assignOperation, assignRequest, assignResponse, getPath  *)
(***************************************************************************)
RECURSIVE applyFrom(_, _, _, _)
applyFrom(h, op, ops, i) ==
    IF i > Len(ops) THEN h ELSE applyFrom(ApplyOpt(h, op, ops[i]), op, ops, i + 1)

\* op := &Operation{}; for _, o := range ops { o(op) }: the heap afterwards;
\* the new operation is the last of its ops
assignOperation(h, ops) ==
    applyFrom([h EXCEPT !.ops = Append(@, EmptyOperation)], Len(h.ops) + 1, ops, 1)

\* filepath.Base of PkgPath(): the last element, "." for the empty path
Base(pkg) == IF pkg = <<>> THEN "." ELSE pkg[Len(pkg)]

\* mutant of typeUri: the package of the type is left out of the name
typeUriNoPkg(t) == "_" \o t.name

\* fmt.Sprintf("%s_%s", filepath.Base(t.PkgPath()), t.Name())
typeUri(t) == Base(t.pkg) \o "_" \o t.name

typeRef(t) == "#/components/schemas/" \o typeUri(t)

\* map[string]MediaType, made when nil
ContentOf(c) == IF c = None THEN EmptyMap ELSE c[1]

RefMedia(ref) == MediaType(Some([EmptyJSON EXCEPT !.Ref = ref]), "")

\* op.RequestBody.Content["application/json"] = MediaType{Schema: &JSON{Ref: ref}}
SetRequestContent(h, op, ref) ==
    [h EXCEPT !.bodies[h.ops[op].RequestBody].Content =
                Some(MapPut(ContentOf(@), "application/json", RefMedia(ref)))]

\* mutant of SetResponseContent: the reference is written into the schema the
\* slot already holds instead of a fresh one
SetResponseContentMerged(h, op, ref) ==
    [h EXCEPT !.resps[ResponseAt(h, op, "200")].Content =
        Some(MapPut(ContentOf(@), "application/json",
            IF "application/json" \in DOMAIN ContentOf(@)
               /\ ContentOf(@)["application/json"].Schema # None
            THEN [ContentOf(@)["application/json"] EXCEPT
                    !.Schema = Some([@[1] EXCEPT !.Ref = ref])]
            ELSE RefMedia(ref)))]

\* op.Responses["200"].Content["application/json"] = MediaType{Schema: &JSON{Ref: ref}}
SetResponseContent(h, op, ref) ==
    [h EXCEPT !.resps[ResponseAt(h, op, "200")].Content =
                Some(MapPut(ContentOf(@), "application/json", RefMedia(ref)))]

\* st: the heap and Components.Schemas the registration works on
assignRequest(st, op, REQ) ==
    [heap |-> SetRequestContent(EnsureRequestBody(st.heap, op), op, typeRef(REQ)),
     schemas |-> MapPut(st.schemas, typeUri(REQ), From(REQ))]

assignResponse(st, op, RES) ==
    [heap |-> SetResponseContent(
                  EnsureResponse(EnsureResponses(st.heap, op), op, "200"),
                  op, typeRef(RES)),
     schemas |-> MapPut(st.schemas, typeUri(RES), From(RES))]

getPath(ps, path) == IF path \in DOMAIN ps THEN ps ELSE MapPut(ps, path, EmptyPath)

(***************************************************************************)
(* The types and objects the callers of the model use.                     *)
(***************************************************************************)
StringT == Builtin("string")
IntT == Builtin("int")
Float64T == Builtin("float64")
BoolT == Builtin("bool")

ApiPkg == <<"github.com", "acme", "shop", "api">>

User ==
    Type("struct", "User", ApiPkg, None,
         <<Field("Name", TRUE, <<"name">>, <<>>, NoTags, StringT),
           Field("Age", TRUE, <<"age", "omitempty">>, <<>>, NoTags, PtrTo(IntT)),
           Field("secret", FALSE, <<"">>, <<>>, NoTags, StringT)>>)

Item ==
    Type("struct", "Item", ApiPkg, None,
         <<Field("ID", TRUE, <<"id">>, <<>>, NoTags, StringT),
           Field("Price", TRUE, <<"price">>, <<>>,
                 [k \in {"json-minimum"} |-> "0.01"], Float64T),
           Field("Labels", TRUE, <<"labels">>, <<>>, NoTags, SliceOf(StringT))>>)

\* the objects the caller built before registering: a template operation with
\* its own Responses map, 200 response and request body, and a response
\* object the caller hands to with.Response
TemplateOp == 1
TemplateResponses == 1
TemplateResponse == 1
SharedResponse == 2
TemplateBody == 1

CallerHeap ==
    [ops |-> <<[EmptyOperation EXCEPT
                    !.Tags = <<"tpl">>,
                    !.OperationID = "tpl",
                    !.Parameters = <<Param("id", "path", "", TRUE, Some(From(StringT)))>>,
                    !.RequestBody = TemplateBody,
                    !.Responses = TemplateResponses]>>,
     rmaps |-> <<[c \in {"200"} |-> TemplateResponse]>>,
     resps |-> <<[Description |-> "tpl ok", Content |-> None],
                 [Description |-> "shared",
                  Content |-> Some([c \in {"application/json"} |->
                                        MediaType(Some(From(StringT)), "hello")])]>>,
     bodies |-> <<[Required |-> TRUE, Description |-> "tpl body",
                   Content |-> Some([c \in {"application/json"} |->
                                        MediaType(Some(From(StringT)), "")])]>>]

Verbs == {"Get", "Post", "Put", "Delete"}
Paths == {"/a", "/b"}
ReqTypes == {Item}
ResTypes == {User, Item}

\* a path parameter the caller built by hand, Required left at its zero value
HandBuiltPathParam == Param("id", "path", "hand-built", FALSE, Some(From(StringT)))

\* option lists of the registrations of Spec
OptLists ==
    {<<>>,
     <<OptOperationId("show"), OptPathParam(StringT, "id", "the id")>>,
     <<OptResponse(200, SharedResponse)>>,
     <<OptOperation(TemplateOp)>>}

\* option lists of the registrations of SpecOpts: the options that write the
\* request and 200 slots alone and in ordered pairs, and the parameter options
RespDesc == OptResponseDescription(200, "found")
ReqDesc == OptRequestDescription("the new item")
RespObj == OptResponse(200, SharedResponse)
Template == OptOperation(TemplateOp)

SlotOptLists ==
    {<<>>, <<RespDesc>>, <<ReqDesc>>, <<RespObj>>, <<Template>>,
     <<OptParam(<<HandBuiltPathParam>>)>>,
     <<OptPathParam(StringT, "id", "the id"), OptResponseDescription(404, "not found")>>,
     <<RespDesc, RespObj>>, <<RespObj, RespDesc>>,
     <<RespDesc, Template>>, <<Template, RespDesc>>,
     <<ReqDesc, Template>>, <<Template, ReqDesc>>,
     <<RespObj, Template>>, <<Template, RespObj>>}

(***************************************************************************)
(* strut.New, and the registrations                                        *)
(***************************************************************************)
\* Definition.Info as strut.New fills it, and no server
NewInfo == [Title |-> "strut", Description |-> "strut", Version |-> "v0.0.1", Servers |-> <<>>]

Init ==
    /\ heap = CallerHeap
    /\ paths = EmptyMap
    /\ schemas = EmptyMap
    /\ mux = EmptyMap
    /\ regs = <<>>
    /\ panicked = FALSE
    /\ arg = StringT
    /\ ret = None
    /\ info = NewInfo
    /\ reqs = <<>>

\* what the history keeps of a registration that returned: its arguments, its
\* operation, and the request body the options had left (None is nil)
Reg(verb, path, req, res, ops, built) ==
    [verb |-> verb, path |-> path, req |-> req, res |-> res, ops |-> ops,
     op |-> Len(built.ops),
     optBody |-> IF built.ops[Len(built.ops)].RequestBody = 0 THEN None
                 ELSE Some(built.bodies[built.ops[Len(built.ops)].RequestBody])]

\* mutant of SetVerb: a slot that holds an operation keeps it
SetVerbOnce(ps, path, verb, op) ==
    IF path \in DOMAIN ps /\ ps[path][verb] # 0 THEN ps
    ELSE [getPath(ps, path) EXCEPT ![path][verb] = op]

\* getPath(s.Definition, path).<verb> = op
SetVerb(ps, path, verb, op) == [getPath(ps, path) EXCEPT ![path][verb] = op]

\* s.mux.Get(path, handler) and the like: the route's handler is replaced
Handle(verb, path, req, res) == MapPut(mux, <<verb, path>>, [req |-> req, res |-> res])

\* a registration stopped by the panic of schema.From: the operation is in
\* paths already, and the call does not return
PanicAt(verb, path, h) ==
    /\ heap' = h
    /\ paths' = SetVerb(paths, path, verb, Len(h.ops))
    /\ panicked' = TRUE
    /\ UNCHANGED <<schemas, mux, regs, arg, ret, info, reqs>>

Returned(verb, path, req, res, ops, built, st) ==
    /\ heap' = st.heap
    /\ schemas' = st.schemas
    /\ paths' = SetVerb(paths, path, verb, Len(built.ops))
    /\ mux' = Handle(verb, path, req, res)
    /\ regs' = Append(regs, Reg(verb, path, req, res, ops, built))
    /\ UNCHANGED <<panicked, arg, ret, info, reqs>>

\* the rest of Post and Put once assignOperation has built the operation
registerInOut(verb, path, REQ, RES, ops, built) ==
    IF FromPanics(REQ) THEN PanicAt(verb, path, built)
    ELSE IF FromPanics(RES)
    THEN PanicAt(verb, path,
            assignRequest([heap |-> built, schemas |-> schemas], Len(built.ops), REQ).heap)
    ELSE Returned(verb, path, Some(REQ), RES, ops, built,
            assignResponse(
                assignRequest([heap |-> built, schemas |-> schemas], Len(built.ops), REQ),
                Len(built.ops), RES))

\* mutant of registerOut: Get and Delete assign a request as Post and Put do
registerOutWithRequest(verb, path, RES, ops, built) ==
    registerInOut(verb, path, RES, RES, ops, built)

\* the rest of Get and Delete once assignOperation has built the operation
registerOut(verb, path, RES, ops, built) ==
    IF FromPanics(RES) THEN PanicAt(verb, path, built)
    ELSE Returned(verb, path, None, RES, ops, built,
            assignResponse([heap |-> built, schemas |-> schemas], Len(built.ops), RES))

Post(path, REQ, RES, ops) ==
    /\ ~panicked
    /\ Len(regs) < MaxRegs
    /\ registerInOut("Post", path, REQ, RES, ops, assignOperation(heap, ops))

Get(path, RES, ops) ==
    /\ ~panicked
    /\ Len(regs) < MaxRegs
    /\ registerOut("Get", path, RES, ops, assignOperation(heap, ops))

Put(path, REQ, RES, ops) ==
    /\ ~panicked
    /\ Len(regs) < MaxRegs
    /\ registerInOut("Put", path, REQ, RES, ops, assignOperation(heap, ops))

Delete(path, RES, ops) ==
    /\ ~panicked
    /\ Len(regs) < MaxRegs
    /\ registerOut("Delete", path, RES, ops, assignOperation(heap, ops))

DoPost == \E path \in Paths, REQ \in ReqTypes, RES \in ResTypes, ops \in OptLists :
              Post(path, REQ, RES, ops)
DoGet == \E path \in Paths, RES \in ResTypes, ops \in OptLists : Get(path, RES, ops)
DoPut == \E path \in Paths, REQ \in ReqTypes, RES \in ResTypes, ops \in OptLists :
              Put(path, REQ, RES, ops)
DoDelete == \E path \in Paths, RES \in ResTypes, ops \in OptLists : Delete(path, RES, ops)

Next == DoPost \/ DoGet \/ DoPut \/ DoDelete

Spec == Init /\ [][Next]_vars

\* registrations on one path with one request and one response type, under
\* the wider option lists
OptsPost == \E ops \in SlotOptLists : Post("/a", Item, User, ops)
OptsGet == \E ops \in SlotOptLists : Get("/a", User, ops)
OptsPut == \E ops \in SlotOptLists : Put("/a", Item, User, ops)
OptsDelete == \E ops \in SlotOptLists : Delete("/a", User, ops)

NextOpts == OptsPost \/ OptsGet \/ OptsPut \/ OptsDelete

SpecOpts == Init /\ [][NextOpts]_vars

(***************************************************************************)
(* Serving: the route handlers the registrations hand to the Mux, and the  *)
(* two schema handlers.  A request is served in steps (decode, handler,    *)
(* createResponse), so that the steps of several requests interleave.      *)
(***************************************************************************)
MaxRequests == 2
MaxServers == 1

\* s.AddServer(url, description)
AddServer(url, description) ==
    /\ ~panicked
    /\ Len(info.Servers) < MaxServers
    /\ info' = [info EXCEPT !.Servers = Append(@, [URL |-> url, Description |-> description])]
    /\ UNCHANGED <<heap, paths, schemas, mux, regs, panicked, arg, ret, reqs>>

\* an http.ResponseWriter as the client sees it: status 0 until the header is
\* written, and the header is fixed from then on
NewWriter == [status |-> 0, contentType |-> "", body |-> <<>>]

\* w.Header().Set("Content-Type", contentType)
HeaderSet(w, contentType) ==
    IF w.status # 0 THEN w ELSE [w EXCEPT !.contentType = contentType]

\* w.WriteHeader(code)
WriteHeader(w, code) == IF w.status # 0 THEN w ELSE [w EXCEPT !.status = code]

\* what one Write hands to the client: an encoded value, a plain text, or the
\* encoded Definition
Chunk(kind, text, doc) == [kind |-> kind, text |-> text, doc |-> doc]

\* w.Write(chunk): the first Write sends status 200 when none was written
Write(w, chunk) == [WriteHeader(w, 200) EXCEPT !.body = Append(@, chunk)]

\* http.Error(w, message, code)
httpError(w, message, code) ==
    Write(WriteHeader(HeaderSet(w, "text/plain; charset=utf-8"), code),
          Chunk("text", message, None))

\* what the caller's handler does with a request: it returns a value, a value
\* json cannot encode (a NaN price), an error, or the error of NewError
HandlerOutcomes == {"value", "unencodable", "error", "NewError"}

\* err != nil
Failed(out) == out \in {"error", "NewError"}

\* NewError(ctx, status, message): the handler writes status and error body
NewError(w, status, message) ==
    Write(WriteHeader(HeaderSet(w, "application/json"), status),
          Chunk("json", message, None))

\* handler(ctx, req) and handler(ctx): what it leaves on the ResponseWriter
handler(w, out) == IF out = "NewError" THEN NewError(w, 404, "not found") ELSE w

\* createResponse(s, ctx, res): json.Encoder writes nothing when it fails
createResponse(w, RES, out) ==
    IF out = "unencodable"
    THEN httpError(HeaderSet(w, "application/json"), "failed to encode response", 500)
    ELSE Write(HeaderSet(w, "application/json"), Chunk("json", typeUri(RES), None))

\* an operation as the encoders walk it, through its pointers and maps
encodeOperation(h, op) ==
    [op |-> h.ops[op],
     responses |-> IF h.ops[op].Responses = 0 THEN <<>>
                   ELSE [c \in DOMAIN h.rmaps[h.ops[op].Responses] |->
                            IF h.rmaps[h.ops[op].Responses][c] = 0 THEN <<>>
                            ELSE <<h.resps[h.rmaps[h.ops[op].Responses][c]]>>],
     requestBody |-> IF h.ops[op].RequestBody = 0 THEN <<>>
                     ELSE <<h.bodies[h.ops[op].RequestBody]>>]

\* json.NewEncoder(w).Encode(s.Definition) and yaml.NewEncoder(w).Encode(s.Definition):
\* map keys are written sorted, so the output is a function of the content
Document(format) ==
    [format |-> format,
     openapi |-> "3.0.3",
     info |-> [Title |-> info.Title, Description |-> info.Description,
               Version |-> info.Version],
     servers |-> info.Servers,
     paths |-> [p \in DOMAIN paths |->
                   [v \in Verbs |-> IF paths[p][v] = 0 THEN None
                                    ELSE Some(encodeOperation(heap, paths[p][v]))]],
     schemas |-> schemas]

\* a request the Mux hands to a route handler or to a schema handler
Request(verb, path, decodable) ==
    [verb |-> verb, path |-> path, decodable |-> decodable, stage |-> "received",
     calls |-> 0, out |-> "", w |-> NewWriter]

\* mutant of decodeRequest: a body that does not decode is handed on
decodeRequestLenient(r) == [r EXCEPT !.stage = "decoded"]

\* err := json.NewDecoder(r.Body).Decode(&req); if err != nil { http.Error(...); return }
decodeRequest(r) ==
    IF r.decodable THEN [r EXCEPT !.stage = "decoded"]
    ELSE [r EXCEPT !.stage = "done", !.w = httpError(@, "could not decode request", 400)]

\* mutant of callHandler: createResponse runs whatever the handler returned
callHandlerAlwaysResponds(r, out) ==
    [r EXCEPT !.calls = @ + 1, !.out = out, !.w = handler(@, out), !.stage = "returned"]

\* res, err := handler(ctx, req); if err != nil { return }
callHandler(r, out) ==
    [r EXCEPT !.calls = @ + 1, !.out = out, !.w = handler(@, out),
              !.stage = IF Failed(out) THEN "done" ELSE "returned"]

\* the request is at the call of its handler: decoded, or without a body to decode
AtHandler(r) ==
    IF r.verb \in {"Post", "Put"} THEN r.stage = "decoded"
    ELSE r.verb \in {"Get", "Delete"} /\ r.stage = "received"

\* the Mux calls the handler registered for the route
Serve ==
    /\ ~panicked
    /\ Len(reqs) < MaxRequests
    /\ \E k \in DOMAIN mux, decodable \in BOOLEAN :
          /\ k[1] \in {"Get", "Delete"} => decodable
          /\ reqs' = Append(reqs, Request(k[1], k[2], decodable))
    /\ UNCHANGED <<heap, paths, schemas, mux, regs, panicked, arg, ret, info>>

DecodeBody ==
    \E i \in 1..Len(reqs) :
        /\ reqs[i].verb \in {"Post", "Put"}
        /\ reqs[i].stage = "received"
        /\ reqs' = [reqs EXCEPT ![i] = decodeRequest(@)]
        /\ UNCHANGED <<heap, paths, schemas, mux, regs, panicked, arg, ret, info>>

CallHandler ==
    \E i \in 1..Len(reqs), out \in HandlerOutcomes :
        /\ AtHandler(reqs[i])
        /\ reqs' = [reqs EXCEPT ![i] = callHandler(@, out)]
        /\ UNCHANGED <<heap, paths, schemas, mux, regs, panicked, arg, ret, info>>

CreateResponse ==
    \E i \in 1..Len(reqs) :
        /\ reqs[i].stage = "returned"
        /\ reqs' = [reqs EXCEPT ![i] =
                       [@ EXCEPT !.stage = "done",
                                 !.w = createResponse(@, mux[<<reqs[i].verb, reqs[i].path>>].res,
                                                      reqs[i].out)]]
        /\ UNCHANGED <<heap, paths, schemas, mux, regs, panicked, arg, ret, info>>

\* mutant of SchemaHandler: a Definition without servers is given one before
\* it is encoded
SchemaHandlerFillingServers(format) ==
    /\ ~panicked
    /\ Len(reqs) < MaxRequests
    /\ info' = IF info.Servers # <<>> THEN info
               ELSE [info EXCEPT !.Servers = <<[URL |-> "/", Description |-> ""]>>]
    /\ reqs' = Append(reqs,
                  [Request("Schema", format, TRUE) EXCEPT
                      !.stage = "done",
                      !.w = Write(HeaderSet(@, "application/" \o format),
                                  Chunk(format, "", Some(Document(format))))])
    /\ UNCHANGED <<heap, paths, schemas, mux, regs, panicked, arg, ret>>

\* s.SchemaHandlerJSON and s.SchemaHandlerYAML: the floats of the schemas are
\* finite, so the encoders do not fail
SchemaHandler(format) ==
    /\ ~panicked
    /\ Len(reqs) < MaxRequests
    /\ reqs' = Append(reqs,
                  [Request("Schema", format, TRUE) EXCEPT
                      !.stage = "done",
                      !.w = Write(HeaderSet(@, "application/" \o format),
                                  Chunk(format, "", Some(Document(format))))])
    /\ UNCHANGED <<heap, paths, schemas, mux, regs, panicked, arg, ret, info>>

SchemaHandlerJSON == SchemaHandler("json")
SchemaHandlerYAML == SchemaHandler("yaml")

\* the program that serves: it adds its servers, then registers at most one
\* handler a verb on "/a", in the order Post, Get, Put, Delete, then serves
VerbRank(verb) ==
    CASE verb = "Post" -> 1 [] verb = "Get" -> 2 [] verb = "Put" -> 3 [] verb = "Delete" -> 4

Registering(verb) ==
    /\ reqs = <<>>
    /\ \A i \in 1..Len(regs) : VerbRank(regs[i].verb) < VerbRank(verb)

ServeAddServer == regs = <<>> /\ reqs = <<>> /\ AddServer("https://api.example", "production")
ServePost == Registering("Post") /\ Post("/a", Item, User, <<>>)
ServeGet == Registering("Get") /\ Get("/a", User, <<>>)
ServePut == Registering("Put") /\ Put("/a", Item, Item, <<>>)
ServeDelete == Registering("Delete") /\ Delete("/a", Item, <<>>)

NextServe ==
    \/ ServeAddServer
    \/ ServePost \/ ServeGet \/ ServePut \/ ServeDelete
    \/ Serve \/ DecodeBody \/ CallHandler \/ CreateResponse
    \/ SchemaHandlerJSON \/ SchemaHandlerYAML

SpecServe == Init /\ [][NextServe]_vars

(***************************************************************************)
(* Registrations under option lists of every order: a Get on "/a" with any *)
(* list of up to MaxOpts options, then Posts on "/b" that name their       *)
(* operation.                                                              *)
(***************************************************************************)
MaxOpts == 3

OrderOpts ==
    {OptTags(<<"a">>), OptTags(<<"b", "c">>),
     OptPathParam(StringT, "id", "the id"), OptQueryParam(IntT, "q", "the query"),
     OptParam(<<HandBuiltPathParam>>),
     OptOperationId("x"), OptOperationId("y"),
     OptDescription("d"), OptSummary("s"),
     OptOperation(TemplateOp)}

OrderOptLists == UNION {[1..n -> OrderOpts] : n \in 0..MaxOpts}

IdOptLists == {<<>>, <<OptOperationId("x")>>, <<OptOperation(TemplateOp)>>}

OrderGet == regs = <<>> /\ \E ops \in OrderOptLists : Get("/a", User, ops)
OrderPost == regs # <<>> /\ \E ops \in IdOptLists : Post("/b", Item, Item, ops)

NextOrder == OrderGet \/ OrderPost

SpecOrder == Init /\ [][NextOrder]_vars

(***************************************************************************)
(* The reflector on its own: schema.From applied to one type.              *)
(***************************************************************************)
RECURSIVE PtrN(_, _)
PtrN(t, n) == IF n = 0 THEN t ELSE PtrTo(PtrN(t, n - 1))

Empty == Type("struct", "Empty", ApiPkg, None, <<>>)
HolderOf(t) == Type("struct", "", <<>>, None, <<Plain("F", t)>>)

ConcreteTypes == {StringT, IntT, Float64T, BoolT, User, Item, Empty, Interface, Chan}
ElemTypes == {PtrN(x, n) : x \in ConcreteTypes, n \in 0..MaxPtrDepth}
ContainerTypes ==
    {SliceOf(e) : e \in ElemTypes} \cup {ArrayOf(e) : e \in ElemTypes}
        \cup {MapOf(e) : e \in ElemTypes} \cup {HolderOf(e) : e \in ElemTypes}
TypeUniverse == ElemTypes \cup ContainerTypes \cup {PtrTo(c) : c \in ContainerTypes}

InitFrom ==
    /\ heap = CallerHeap
    /\ paths = EmptyMap
    /\ schemas = EmptyMap
    /\ mux = EmptyMap
    /\ regs = <<>>
    /\ panicked = FALSE
    /\ arg \in TypeUniverse
    /\ ret = None
    /\ info = NewInfo
    /\ reqs = <<>>

CallFrom ==
    /\ ret = None
    /\ ret' = Some(From(arg))
    /\ UNCHANGED <<heap, paths, schemas, mux, regs, panicked, arg, info, reqs>>

NextFrom == CallFrom

SpecFrom == InitFrom /\ [][NextFrom]_vars

(***************************************************************************)
(* Registrations under type parameters of every sort: named structs,       *)
(* unnamed types and the interface type any, without options.              *)
(***************************************************************************)
ResArgs == {User, Item, SliceOf(User), MapOf(Item), PtrTo(Item), HolderOf(StringT), Interface}
ReqArgs == {Item, SliceOf(Item), Interface}

TypesPost == \E path \in Paths, REQ \in ReqArgs, RES \in ResArgs : Post(path, REQ, RES, <<>>)
TypesGet == \E path \in Paths, RES \in ResArgs : Get(path, RES, <<>>)
TypesPut == \E path \in Paths, REQ \in ReqArgs, RES \in ResArgs : Put(path, REQ, RES, <<>>)
TypesDelete == \E path \in Paths, RES \in ResArgs : Delete(path, RES, <<>>)

NextTypes == TypesPost \/ TypesGet \/ TypesPut \/ TypesDelete

SpecTypes == Init /\ [][NextTypes]_vars

(***************************************************************************)
(* schema.From applied to struct types: the fields a caller may declare.   *)
(***************************************************************************)
MaxFields == 2

Struct(fields) == Type("struct", "", <<>>, None, fields)

\* an embedded field: its name is the name of its type, and it is exported
\* when that name is
Embedded(exported, type) == Field(type.name, exported, <<"">>, <<>>, NoTags, type)

\* fields that differ in visibility, json name and json options
NameFields ==
    {Plain("A", StringT),
     Field("B", TRUE, <<"x">>, <<>>, NoTags, StringT),
     Field("C", TRUE, <<"x", "omitempty">>, <<>>, NoTags, StringT),
     Field("D", TRUE, <<"-">>, <<>>, NoTags, StringT),
     Field("e", FALSE, <<"y">>, <<>>, NoTags, StringT),
     Field("F", TRUE, <<"omitempty_flag">>, <<>>, NoTags, StringT),
     Field("G", TRUE, <<"", "omitempty">>, <<>>, NoTags, IntT),
     Field("H", TRUE, <<"x">>, <<>>, NoTags, IntT),
     Embedded(FALSE, StringT),
     Embedded(TRUE, Empty)}

\* the fields of a struct have distinct Go names
NameStructs ==
    UNION {{Struct(fs) : fs \in {g \in [1..n -> NameFields] :
                                    \A i, j \in 1..n : i # j => g[i].Name # g[j].Name}} :
           n \in 0..MaxFields}

\* a struct of one field V, json name "v"
Tagged(type, enum, tags) == Struct(<<Field("V", TRUE, <<"v">>, enum, tags, type)>>)

\* fields with a json-enum tag: <<type, tokens>>
EnumCases ==
    {<<StringT, <<"red", "green", "blue">>>>,
     <<StringT, <<"red", " green">>>>,
     <<IntT, <<"1", "5", "90">>>>,
     <<IntT, <<"1", "abc", "5">>>>,
     <<Builtin("int8"), <<"-90", "0">>>>,
     <<Builtin("int64"), <<"90">>>>,
     <<Builtin("uint"), <<"1", "5">>>>,
     <<Builtin("uint8"), <<"0">>>>,
     <<Float64T, <<"1.0", "2.5">>>>,
     <<Float64T, <<"2.5", "abc", "1">>>>,
     <<Builtin("float32"), <<"0.01">>>>,
     <<BoolT, <<"true", "false">>>>,
     <<BoolT, <<"true", "maybe", "false">>>>,
     <<PtrTo(IntT), <<"1", "5">>>>,
     <<PtrTo(StringT), <<"red">>>>,
     <<SliceOf(StringT), <<"red", "green">>>>,
     <<SliceOf(IntT), <<"1", "5">>>>,
     <<SliceOf(Float64T), <<"2.5">>>>,
     <<SliceOf(BoolT), <<"true">>>>,
     <<ArrayOf(StringT), <<"red", "green">>>>,
     <<ArrayOf(IntT), <<"1", "5">>>>,
     <<SliceOf(User), <<"red">>>>,
     <<SliceOf(SliceOf(StringT)), <<"red">>>>,
     <<PtrTo(SliceOf(StringT)), <<"red", "green">>>>,
     <<User, <<"red">>>>}

EnumStructs == {Tagged(c[1], c[2], NoTags) : c \in EnumCases}

\* the bound tags, and the values a caller may write for them
FloatBoundKeys ==
    {"json-maximum", "json-minimum", "json-exclusive-maximum", "json-exclusive-minimum"}
IntBoundKeys == {"json-max-items", "json-min-items", "json-max-length", "json-min-length"}
BoundKeys == FloatBoundKeys \cup IntBoundKeys
BoundValues == {"abc", "2.5", "1"}
BoundTypes == {Float64T, IntT, StringT, SliceOf(StringT)}

\* one bound tag alone, and one bound tag beside valid tags of all other keys
OneTag(k, v) == [x \in {k} |-> v]
AmongValid(k, v) ==
    [x \in BoundKeys \cup {"json-description"} |->
        IF x = k THEN v ELSE IF x = "json-description" THEN "d" ELSE "5"]

BoundStructs ==
    {Tagged(t, <<>>, OneTag(k, v)) : t \in BoundTypes, k \in BoundKeys, v \in BoundValues}
        \cup {Tagged(t, <<>>, AmongValid(k, v)) :
                t \in BoundTypes, k \in BoundKeys, v \in BoundValues}

\* fields whose kind a json-type tag sets
TypeTagStructs ==
    {Tagged(StringT, <<>>, OneTag("json-type", "object")),
     Tagged(User, <<>>, OneTag("json-type", "string")),
     Tagged(IntT, <<>>, OneTag("json-type", "number")),
     Tagged(StringT, <<"1", "5">>, OneTag("json-type", "integer")),
     Tagged(MapOf(StringT), <<>>, OneTag("json-type", "array"))}

\* fields with valid bound tags of all three families, alone and under a
\* json-type tag that names a kind ("" is no json-type tag)
ForcedKinds == {"", "string", "integer", "number", "array", "object", "boolean"}
GateTypes == BoundTypes \cup {BoolT}
GateTags(kind) ==
    [x \in BoundKeys \cup {"json-format", "json-pattern", "json-type"} |->
        CASE x = "json-type" -> kind
          [] x = "json-format" -> "email"
          [] x = "json-pattern" -> "^a"
          [] OTHER -> "5"]

GatedStructs == {Tagged(t, <<>>, GateTags(kind)) : t \in GateTypes, kind \in ForcedKinds}

StructUniverse ==
    NameStructs \cup EnumStructs \cup BoundStructs \cup TypeTagStructs \cup GatedStructs

InitFields ==
    /\ heap = CallerHeap
    /\ paths = EmptyMap
    /\ schemas = EmptyMap
    /\ mux = EmptyMap
    /\ regs = <<>>
    /\ panicked = FALSE
    /\ arg \in StructUniverse
    /\ ret = None
    /\ info = NewInfo
    /\ reqs = <<>>

SpecFields == InitFields /\ [][NextFrom]_vars

(***************************************************************************)
(* Reading the Definition                                                  *)
(***************************************************************************)
SchemaPrefix == "#/components/schemas/"

\* the operations the Definition holds: the <<path, verb>> slots that are set
Slots == {pv \in (DOMAIN paths) \X Verbs : paths[pv[1]][pv[2]] # 0}
OpAt(pv) == paths[pv[1]][pv[2]]

\* responses[code] of an operation, 0 when there is none
ResponseOf(h, op, code) ==
    IF h.ops[op].Responses = 0 THEN 0 ELSE MapGet(h.rmaps[h.ops[op].Responses], code)

\* content["application/json"].schema of a Content map: None when absent
JsonSchemaOf(content) ==
    IF content = None THEN None
    ELSE IF "application/json" \notin DOMAIN content[1] THEN None
    ELSE content[1]["application/json"].Schema

ResponseSchema(h, op) ==
    IF ResponseOf(h, op, "200") = 0 THEN None
    ELSE JsonSchemaOf(h.resps[ResponseOf(h, op, "200")].Content)

RequestSchema(h, op) ==
    IF h.ops[op].RequestBody = 0 THEN None
    ELSE JsonSchemaOf(h.bodies[h.ops[op].RequestBody].Content)

RefOnly(ref) == Some([EmptyJSON EXCEPT !.Ref = ref])

\* the last registration that returned
LastReg == regs[Len(regs)]

\* the types registered so far, as request or response type
RegisteredTypes ==
    {regs[i].res : i \in 1..Len(regs)}
        \cup {regs[i].req[1] : i \in {j \in 1..Len(regs) : regs[j].req # None}}

\* how often t was registered, as request or response type
TimesRegistered(t) ==
    Cardinality({i \in 1..Len(regs) : regs[i].res = t})
        + Cardinality({i \in 1..Len(regs) : regs[i].req = Some(t)})

(***************************************************************************)
(* C1: whenever a registration returns, components.schemas holds exactly   *)
(* one entry for each named type registered so far, however often it was   *)
(* registered as a request or response type, under the name <pkg>_<T>, and *)
(* the registration embedded "#/components/schemas/<pkg>_<T>" for its own  *)
(* types: so all registrations of T embed the same string.                 *)
(***************************************************************************)
C1_OneEntryPerType ==
    regs # <<>> =>
        /\ Cardinality(DOMAIN schemas) = Cardinality(RegisteredTypes)
        /\ \A t \in RegisteredTypes :
              /\ ("api_" \o t.name) \in DOMAIN schemas
              /\ schemas["api_" \o t.name] = From(t)
        /\ ResponseSchema(heap, LastReg.op)
              = RefOnly("#/components/schemas/api_" \o LastReg.res.name)
        /\ LastReg.req # None =>
              RequestSchema(heap, LastReg.op)
                  = RefOnly("#/components/schemas/api_" \o LastReg.req[1].name)

\* Item registered twice, once as a request and once as a response type
C1_Witness ==
    /\ Len(regs) = 2
    /\ TimesRegistered(Item) >= 2
    /\ regs[1].req = Some(Item)
    /\ regs[2].res = Item
    /\ Cardinality(DOMAIN schemas) = Cardinality(RegisteredTypes)

(***************************************************************************)
(* C3: for every operation the Definition holds, the 200 response schema   *)
(* (and, for Post and Put, the request body schema) is a node whose only   *)
(* populated field is ref, and ref is "#/components/schemas/" followed by  *)
(* a key of components.schemas.                                            *)
(***************************************************************************)
IsComponentRef(schema) ==
    \E k \in DOMAIN schemas : schema = RefOnly(SchemaPrefix \o k)

C3_BodiesAreReferences ==
    \A pv \in Slots :
        /\ IsComponentRef(ResponseSchema(heap, OpAt(pv)))
        /\ pv[2] \in {"Post", "Put"} => IsComponentRef(RequestSchema(heap, OpAt(pv)))

\* a Put registered with a response object whose content the caller had
\* filled with an inline schema, and a Get registered from the template
C3_Witness ==
    /\ Len(regs) = 2
    /\ regs[1].verb = "Put" /\ regs[1].ops = <<OptResponse(200, SharedResponse)>>
    /\ regs[2].verb = "Get" /\ regs[2].ops = <<OptOperation(TemplateOp)>>
    /\ regs[1].path # regs[2].path
    /\ Cardinality(Slots) = 2

(***************************************************************************)
(* C5 (as claimed): a registration sets its own slot and changes no        *)
(* operation registered for another verb or another path: the slot holds   *)
(* the same operation, with the same fields, responses and request body.   *)
(***************************************************************************)
\* everything the document shows of an operation
OpView(h, op) ==
    [op |-> h.ops[op],
     responses |-> IF h.ops[op].Responses = 0 THEN <<>>
                   ELSE [c \in DOMAIN h.rmaps[h.ops[op].Responses] |->
                            IF h.rmaps[h.ops[op].Responses][c] = 0 THEN <<>>
                            ELSE <<h.resps[h.rmaps[h.ops[op].Responses][c]]>>],
     requestBody |-> IF h.ops[op].RequestBody = 0 THEN <<>>
                     ELSE <<h.bodies[h.ops[op].RequestBody]>>]

C5_OtherOperationsUnchanged ==
    [][Len(regs') = Len(regs) + 1 =>
        /\ paths'[regs'[Len(regs')].path][regs'[Len(regs')].verb] = regs'[Len(regs')].op
        /\ \A pv \in Slots :
              pv # <<regs'[Len(regs')].path, regs'[Len(regs')].verb>> =>
                  /\ paths'[pv[1]][pv[2]] = OpAt(pv)
                  /\ OpView(heap', OpAt(pv)) = OpView(heap, OpAt(pv))]_vars

(***************************************************************************)
(* C6: a registration of a <<path, verb>> that is registered already       *)
(* returns, and the slot then holds the operation the later call built:    *)
(* a new operation, with the operationId and parameters of the later       *)
(* call's options and the reference of the later call's response type.     *)
(***************************************************************************)
RECURSIVE LastIndex(_, _, _)
\* the last place at or before i of an option of one of the kinds, 0 if none
LastIndex(ops, kinds, i) ==
    IF i = 0 THEN 0
    ELSE IF ops[i].opt \in kinds THEN i
    ELSE LastIndex(ops, kinds, i - 1)

\* the operationId the options ask for: the last to set it wins, a template
\* brings its own
WantedOperationId(ops) ==
    IF LastIndex(ops, {"OperationId", "Operation"}, Len(ops)) = 0 THEN ""
    ELSE IF ops[LastIndex(ops, {"OperationId", "Operation"}, Len(ops))].opt = "OperationId"
    THEN ops[LastIndex(ops, {"OperationId", "Operation"}, Len(ops))].s
    ELSE "tpl"

\* the names of the parameters the options ask for
RECURSIVE WantedParams(_, _)
WantedParams(ops, i) ==
    IF i = 0 THEN <<>>
    ELSE CASE ops[i].opt = "Operation" -> <<"id">>
           [] ops[i].opt \in {"PathParam", "QueryParam", "CookieParam", "HeaderParam"} ->
                Append(WantedParams(ops, i - 1), ops[i].name)
           [] ops[i].opt = "Param" ->
                WantedParams(ops, i - 1)
                    \o [k \in 1..Len(ops[i].params) |-> ops[i].params[k].Name]
           [] OTHER -> WantedParams(ops, i - 1)

ParamNames(h, op) ==
    [k \in 1..Len(h.ops[op].Parameters) |-> h.ops[op].Parameters[k].Name]

C6_LastWriteWins ==
    /\ ~panicked
    /\ regs # <<>> =>
        /\ paths[LastReg.path][LastReg.verb] = LastReg.op
        /\ \A i \in 1..(Len(regs) - 1) : regs[i].op # LastReg.op
        /\ heap.ops[LastReg.op].OperationID = WantedOperationId(LastReg.ops)
        /\ ParamNames(heap, LastReg.op) = WantedParams(LastReg.ops, Len(LastReg.ops))
        /\ ResponseSchema(heap, LastReg.op) = RefOnly(typeRef(LastReg.res))

\* the same <<path, verb>> registered twice, with other options and another
\* response type the second time
C6_Witness ==
    /\ Len(regs) = 2
    /\ regs[1].path = regs[2].path /\ regs[1].verb = regs[2].verb
    /\ regs[1].ops = <<OptOperationId("show"), OptPathParam(StringT, "id", "the id")>>
    /\ regs[2].ops = <<>>
    /\ regs[1].res # regs[2].res
    /\ heap.ops[OpAt(<<regs[2].path, regs[2].verb>>)].OperationID = ""

(***************************************************************************)
(* C2 (as claimed): when the options of a registration hold                *)
(* with.ResponseDescription(200, d), wherever in the list, the 200         *)
(* response of the operation has description d and the reference of the    *)
(* response type; when the options of a Post or Put hold                   *)
(* with.RequestDescription(q), the request body has description q and the  *)
(* reference of the request type.                                          *)
(***************************************************************************)
Describes200(o) == o.opt = "ResponseDescription" /\ o.code = 200
Replaces200(o) == (o.opt = "Response" /\ o.code = 200) \/ o.opt = "Operation"
DescribesRequest(o) == o.opt = "RequestDescription"
ReplacesRequest(o) == o.opt = "Operation"

ResponseDescriptionOf(h, op) ==
    IF ResponseOf(h, op, "200") = 0 THEN None
    ELSE Some(h.resps[ResponseOf(h, op, "200")].Description)

RequestDescriptionOf(h, op) ==
    IF h.ops[op].RequestBody = 0 THEN None
    ELSE Some(h.bodies[h.ops[op].RequestBody].Description)

C2_DescriptionsKeptAnywhere ==
    regs # <<>> =>
        \A i \in 1..Len(LastReg.ops) :
            /\ Describes200(LastReg.ops[i]) =>
                  /\ ResponseDescriptionOf(heap, LastReg.op) = Some(LastReg.ops[i].s)
                  /\ ResponseSchema(heap, LastReg.op) = RefOnly(typeRef(LastReg.res))
            /\ (DescribesRequest(LastReg.ops[i]) /\ LastReg.req # None) =>
                  /\ RequestDescriptionOf(heap, LastReg.op) = Some(LastReg.ops[i].s)
                  /\ RequestSchema(heap, LastReg.op) = RefOnly(typeRef(LastReg.req[1]))

(***************************************************************************)
(* C2 (amended): the references are always there.  The description d of    *)
(* with.ResponseDescription(200, d) is on the 200 response when no later   *)
(* option of the list is with.Response(200, r), with.Operation(t) or       *)
(* another description of 200; a later with.Response(200, r) puts r itself *)
(* in the slot.  The description q of with.RequestDescription(q) is on the *)
(* request body of a Post or Put when no later option is with.Operation(t) *)
(* or another request description.                                         *)
(***************************************************************************)
NoLaterReplaces200(ops, i) == \A j \in (i + 1)..Len(ops) : ~Replaces200(ops[j])
NoLaterDescribes200(ops, i) == \A j \in (i + 1)..Len(ops) : ~Describes200(ops[j])
NoLaterReplacesRequest(ops, i) == \A j \in (i + 1)..Len(ops) : ~ReplacesRequest(ops[j])
NoLaterDescribesRequest(ops, i) == \A j \in (i + 1)..Len(ops) : ~DescribesRequest(ops[j])

C2_DescriptionsKeptUnlessReplaced ==
    regs # <<>> =>
        /\ ResponseSchema(heap, LastReg.op) = RefOnly(typeRef(LastReg.res))
        /\ LastReg.req # None =>
              RequestSchema(heap, LastReg.op) = RefOnly(typeRef(LastReg.req[1]))
        /\ \A i \in 1..Len(LastReg.ops) :
            /\ (/\ Describes200(LastReg.ops[i])
                /\ NoLaterReplaces200(LastReg.ops, i)
                /\ NoLaterDescribes200(LastReg.ops, i)) =>
                  ResponseDescriptionOf(heap, LastReg.op) = Some(LastReg.ops[i].s)
            /\ (/\ LastReg.ops[i].opt = "Response" /\ LastReg.ops[i].code = 200
                /\ NoLaterReplaces200(LastReg.ops, i)) =>
                  ResponseOf(heap, LastReg.op, "200") = LastReg.ops[i].res
            /\ (/\ DescribesRequest(LastReg.ops[i]) /\ LastReg.req # None
                /\ NoLaterReplacesRequest(LastReg.ops, i)
                /\ NoLaterDescribesRequest(LastReg.ops, i)) =>
                  RequestDescriptionOf(heap, LastReg.op) = Some(LastReg.ops[i].s)

\* a Post that described its 200 response after taking a template, and a Put
\* that described its request: both descriptions stand beside the references
C2_Witness ==
    /\ Len(regs) = 2
    /\ regs[1].verb = "Post" /\ regs[1].ops = <<Template, RespDesc>>
    /\ regs[2].verb = "Put" /\ regs[2].ops = <<ReqDesc>>
    /\ ResponseDescriptionOf(heap, regs[1].op) = Some("found")
    /\ ResponseSchema(heap, regs[1].op) = RefOnly(typeRef(User))
    /\ RequestDescriptionOf(heap, regs[2].op) = Some("the new item")
    /\ RequestSchema(heap, regs[2].op) = RefOnly(typeRef(Item))

(***************************************************************************)
(* C4 (as claimed): every parameter with in = "path" of an operation the   *)
(* Definition holds has required = true, whatever options built it.        *)
(***************************************************************************)
C4_PathParamsRequired ==
    \A pv \in Slots :
        \A k \in 1..Len(heap.ops[OpAt(pv)].Parameters) :
            heap.ops[OpAt(pv)].Parameters[k].In = "path" =>
                heap.ops[OpAt(pv)].Parameters[k].Required

(***************************************************************************)
(* C7 (as claimed): an operation registered with Get or Delete has no      *)
(* "application/json" entry under requestBody.content, whatever its        *)
(* options; one registered with Post or Put has the request reference and  *)
(* the 200 reference.                                                      *)
(***************************************************************************)
HasJsonRequest(h, op) ==
    /\ h.ops[op].RequestBody # 0
    /\ h.bodies[h.ops[op].RequestBody].Content # None
    /\ "application/json" \in DOMAIN h.bodies[h.ops[op].RequestBody].Content[1]

RequestBodyOf(h, op) ==
    IF h.ops[op].RequestBody = 0 THEN None ELSE Some(h.bodies[h.ops[op].RequestBody])

C7_NoRequestBodyForGetDelete ==
    regs # <<>> =>
        /\ LastReg.verb \in {"Get", "Delete"} => ~HasJsonRequest(heap, LastReg.op)
        /\ LastReg.verb \in {"Post", "Put"} =>
              /\ RequestSchema(heap, LastReg.op) = RefOnly(typeRef(LastReg.req[1]))
              /\ ResponseSchema(heap, LastReg.op) = RefOnly(typeRef(LastReg.res))

(***************************************************************************)
(* C7 (amended): Get and Delete leave the request body as the options left *)
(* it, so the operation has an "application/json" request entry only when  *)
(* with.Operation brought a request body that has one; Post and Put always *)
(* have the request reference and the 200 reference.                       *)
(***************************************************************************)
C7_GetDeleteLeaveRequestBody ==
    regs # <<>> =>
        /\ LastReg.verb \in {"Get", "Delete"} =>
              /\ RequestBodyOf(heap, LastReg.op) = LastReg.optBody
              /\ (\A i \in 1..Len(LastReg.ops) : LastReg.ops[i].opt # "Operation") =>
                    ~HasJsonRequest(heap, LastReg.op)
        /\ LastReg.verb \in {"Post", "Put"} =>
              /\ RequestSchema(heap, LastReg.op) = RefOnly(typeRef(LastReg.req[1]))
              /\ ResponseSchema(heap, LastReg.op) = RefOnly(typeRef(LastReg.res))

\* a Get whose options made a request body, and a Post without options
C7_Witness ==
    /\ Len(regs) = 2
    /\ regs[1].verb = "Get" /\ regs[1].ops = <<ReqDesc>>
    /\ regs[2].verb = "Post" /\ regs[2].ops = <<>>
    /\ heap.ops[regs[1].op].RequestBody # 0
    /\ ~HasJsonRequest(heap, regs[1].op)
    /\ HasJsonRequest(heap, regs[2].op)

(***************************************************************************)
(* C8 (as claimed): for every type X that From accepts, From of *X has     *)
(* nullable true and agrees with From of X in every other field.           *)
(***************************************************************************)
C8_PointerOnlyAddsNullable ==
    (ret # None /\ arg.kind = "ptr" /\ ~FromPanics(Elem(arg))) =>
        /\ ret[1].Nullable = TRUE
        /\ [ret[1] EXCEPT !.Nullable = FALSE] = [From(Elem(arg)) EXCEPT !.Nullable = FALSE]

(***************************************************************************)
(* C9 (as claimed): a chain of n >= 1 pointers to X, given to From or      *)
(* found as the type of a struct field, a slice or array element or a map  *)
(* value, yields the schema of X with nullable true.                       *)
(***************************************************************************)
RECURSIVE PtrBase(_)
\* the type at the end of a chain of pointers
PtrBase(t) == IF t.kind = "ptr" THEN PtrBase(Elem(t)) ELSE t

\* the schema of X, nullable, for a chain of pointers to X
NullableBase(t) == [typeToSchema(PtrBase(t)) EXCEPT !.Nullable = TRUE]

C9_PointerChainsUnwrapped ==
    (ret # None /\ ret[1] # Panic) =>
        /\ arg.kind = "ptr" => ret[1] = NullableBase(arg)
        /\ (arg.kind \in {"slice", "array"} /\ Elem(arg).kind = "ptr") =>
              ret[1].Items = Some(NullableBase(Elem(arg)))
        /\ (arg.kind = "map" /\ Elem(arg).kind = "ptr") =>
              ret[1].AdditionalProperties = Some(NullableBase(Elem(arg)))
        /\ (arg.kind = "struct" /\ arg.name = "" /\ arg.fields[1].Type.kind = "ptr") =>
              ret[1].Properties[1]["F"] = NullableBase(arg.fields[1].Type)

(***************************************************************************)
(* C10 (as claimed): From of a slice or an array of E, for every element   *)
(* type E that From accepts, pointers and chains of pointers among them,   *)
(* has kind array and items equal to From of E.                            *)
(***************************************************************************)
C10_ItemsAreFromOfElement ==
    (ret # None /\ arg.kind \in {"slice", "array"} /\ ~FromPanics(Elem(arg))) =>
        /\ ret[1].Type = "array"
        /\ ret[1].Items = Some(From(Elem(arg)))

(***************************************************************************)
(* C11 (as claimed): From of a map with values of type V, for every V that *)
(* From accepts, has kind object, properties present and empty, no         *)
(* required list, and additionalProperties equal to From of V.             *)
(***************************************************************************)
C11_MapValuesAreFromOfValue ==
    (ret # None /\ arg.kind = "map" /\ ~FromPanics(Elem(arg))) =>
        /\ ret[1].Type = "object"
        /\ ret[1].Properties = Some(EmptyMap)
        /\ ret[1].Required = None
        /\ ret[1].AdditionalProperties = Some(From(Elem(arg)))

(***************************************************************************)
(* Reading a struct type as its declaration says                           *)
(***************************************************************************)
\* exported, and not marked ignored with "-"
Visible(f) == f.Exported /\ f.Json[1] # "-"
ExternalName(f) == IF f.Json[1] = "" THEN f.Name ELSE f.Json[1]
\* the json tag carries the option omitempty after the name
OmitOption(f) == \E j \in 2..Len(f.Json) : f.Json[j] = "omitempty"

VisibleFields(t) == {i \in 1..Len(t.fields) : Visible(t.fields[i])}
VisibleNames(t) == {ExternalName(t.fields[i]) : i \in VisibleFields(t)}
DistinctNames(t) ==
    \A i, j \in VisibleFields(t) :
        i # j => ExternalName(t.fields[i]) # ExternalName(t.fields[j])

RequiredOf(s) == IF s.Required = None THEN <<>> ELSE s.Required[1]
RequiredNames(s) == {RequiredOf(s)[i] : i \in 1..Len(RequiredOf(s))}
PropertyNames(s) == IF s.Properties = None THEN {} ELSE DOMAIN s.Properties[1]

\* From was applied to a struct type
FromStruct == ret # None /\ arg.kind = "struct"

(***************************************************************************)
(* C12 (as claimed): the external name of a visible field is in            *)
(* requiredNames exactly when the field's json tag does not carry the      *)
(* option omitempty, whatever the name is; so a struct none of whose       *)
(* fields carries the option has all its visible names required.  Stated   *)
(* for structs whose visible fields have distinct names.                   *)
(***************************************************************************)
C12_RequiredIffNoOmitOption ==
    (FromStruct /\ DistinctNames(arg)) =>
        \A i \in VisibleFields(arg) :
            ExternalName(arg.fields[i]) \in RequiredNames(ret[1])
                <=> ~OmitOption(arg.fields[i])

(***************************************************************************)
(* C13 (as claimed): in every node of the tree From returns, properties is *)
(* non-nil exactly when the kind of the node is object, also in the nodes  *)
(* of fields whose kind a json-type tag set.                               *)
(***************************************************************************)
RECURSIVE Nodes(_)
\* the nodes of a schema tree
Nodes(s) ==
    {s} \cup (IF s.Items = None THEN {} ELSE Nodes(s.Items[1]))
        \cup (IF s.AdditionalProperties = None THEN {}
              ELSE Nodes(s.AdditionalProperties[1]))
        \cup (IF s.Properties = None THEN {}
              ELSE UNION {Nodes(s.Properties[1][k]) : k \in DOMAIN s.Properties[1]})

C13_PropertiesIffObject ==
    (ret # None /\ ret[1] # Panic) =>
        \A n \in Nodes(ret[1]) : (n.Properties # None) <=> (n.Type = "object")

(***************************************************************************)
(* C14 (as claimed): in every object node From returns, requiredNames has  *)
(* no name twice, holds only keys of properties, and is absent rather than *)
(* empty; also for structs without visible fields and structs in which two *)
(* visible fields have the same external name.                             *)
(***************************************************************************)
NoDuplicates(seq) == \A i, j \in 1..Len(seq) : i # j => seq[i] # seq[j]

C14_RequiredIsASetOfProperties ==
    (ret # None /\ ret[1] # Panic) =>
        \A n \in Nodes(ret[1]) :
            n.Type = "object" =>
                /\ NoDuplicates(RequiredOf(n))
                /\ RequiredNames(n) \subseteq PropertyNames(n)
                /\ n.Required # Some(<<>>)

(***************************************************************************)
(* C15: for every struct type the keys of properties are exactly the       *)
(* external names of the fields that are exported and not marked with "-": *)
(* the name part of the json tag when there is one, else the Go name.      *)
(* Unexported and ignored fields add nothing to properties or to           *)
(* requiredNames.                                                          *)
(***************************************************************************)
C15_PropertiesAreVisibleFields ==
    FromStruct =>
        /\ ret[1].Type = "object"
        /\ ret[1].Properties # None
        /\ PropertyNames(ret[1]) = VisibleNames(arg)
        /\ RequiredNames(ret[1]) \subseteq VisibleNames(arg)

\* a struct with a renamed field and an unexported one, and one with a
\* field of its Go name and an ignored one
C15_Witness ==
    /\ FromStruct
    /\ Len(arg.fields) = 2
    /\ \/ /\ arg.fields[1].Json = <<"x">> /\ ~arg.fields[2].Exported
          /\ arg.fields[2].Json = <<"y">>
          /\ PropertyNames(ret[1]) = {"x"}
       \/ /\ arg.fields[1].Json = <<"-">> /\ arg.fields[2] = Plain("A", StringT)
          /\ PropertyNames(ret[1]) = {"A"}

(***************************************************************************)
(* C16 (as claimed): an embedded field without visible fields of its own   *)
(* adds no key to properties and no name to requiredNames, be its type an  *)
(* unexported primitive or an exported struct type with no visible field.  *)
(***************************************************************************)
\* the embedded fields of the universe: neither has a visible field in it
IsEmbedded(f) == f \in {Embedded(FALSE, StringT), Embedded(TRUE, Empty)}
WithoutEmbedded(t) == Struct(SelectSeq(t.fields, LAMBDA f : ~IsEmbedded(f)))

C16_EmbeddedAddsNothing ==
    (FromStruct /\ arg \in NameStructs) =>
        /\ PropertyNames(ret[1]) = PropertyNames(From(WithoutEmbedded(arg)))
        /\ RequiredOf(ret[1]) = RequiredOf(From(WithoutEmbedded(arg)))

(***************************************************************************)
(* Reading the schema of the field of a one-field struct                   *)
(***************************************************************************)
\* From was applied to a struct of the single field V
FromTagged == FromStruct /\ arg \in EnumStructs \cup BoundStructs \cup TypeTagStructs
TheField == arg.fields[1]
FieldNode == ret[1].Properties[1]["v"]

ScalarKinds == {"string", "integer", "number", "boolean"}

\* a token is a literal of the kind, and the value it denotes
ValidLiteral(kind, tok) ==
    CASE kind = "string" -> TRUE
      [] kind = "integer" -> tok \in DOMAIN IntLits
      [] kind = "number" -> tok \in DOMAIN FloatLits
      [] kind = "boolean" -> tok \in {"true", "false"}
      [] OTHER -> FALSE

Literal(kind, tok) ==
    CASE kind = "string" -> EnumStr(tok)
      [] kind = "integer" -> EnumInt(IntLits[tok])
      [] kind = "number" -> EnumFloat(FloatLits[tok])
      [] kind = "boolean" -> EnumBool(tok = "true")

\* the values of the tokens, blanks around a token set aside
Literals(kind, toks) == [i \in 1..Len(toks) |-> Literal(kind, TrimSpace(toks[i]))]
AllValid(kind, toks) == \A i \in 1..Len(toks) : ValidLiteral(kind, TrimSpace(toks[i]))

(***************************************************************************)
(* C17 (as claimed): for a field of kind string, integer (signed or        *)
(* unsigned), number or boolean whose json-enum tag lists n literals of    *)
(* that kind, enumValues has n entries, the i-th the value of the i-th     *)
(* token: the string as written, the integer, the float, the boolean.      *)
(* Blanks around a token are not counted as part of it; stated for fields  *)
(* whose kind is that of their Go type.                                    *)
(***************************************************************************)
C17_EnumRoundTrip ==
    (/\ FromTagged
     /\ "json-type" \notin DOMAIN TheField.Tags
     /\ FieldNode.Type \in ScalarKinds
     /\ TheField.Enum # <<>>
     /\ AllValid(FieldNode.Type, TheField.Enum)) =>
        FieldNode.Enum = Literals(FieldNode.Type, TheField.Enum)

(***************************************************************************)
(* C18 (as claimed): for a field of kind integer, number or boolean whose  *)
(* json-enum tag mixes tokens that parse with tokens that do not,          *)
(* enumValues holds exactly the values of the tokens that parse, in order, *)
(* with no entry for the others.                                           *)
(***************************************************************************)
Parseable(kind, toks) == SelectSeq(toks, LAMBDA tok : ValidLiteral(kind, TrimSpace(tok)))

C18_UnparseableTokensDropped ==
    (/\ FromTagged
     /\ FieldNode.Type \in {"integer", "number", "boolean"}
     /\ TheField.Type.kind \notin UnsignedKinds \cup StringKinds
     /\ TheField.Enum # <<>>
     /\ ~AllValid(FieldNode.Type, TheField.Enum)
     /\ Parseable(FieldNode.Type, TheField.Enum) # <<>>) =>
        FieldNode.Enum = Literals(FieldNode.Type, Parseable(FieldNode.Type, TheField.Enum))

(***************************************************************************)
(* C19 (as claimed): for a field of kind array whose elements are of kind  *)
(* string, integer, number or boolean, the json-enum tag sets the          *)
(* enumValues of items to the parsed tokens and leaves those of the array  *)
(* node empty; when the elements are of kind object or array the tag       *)
(* changes nothing in the schema of the field.                             *)
(***************************************************************************)
C19_ArrayEnumGoesToItems ==
    (/\ FromTagged
     /\ FieldNode.Type = "array"
     /\ FieldNode.Items # None
     /\ TheField.Enum # <<>>) =>
        /\ (/\ FieldNode.Items[1].Type \in ScalarKinds
            /\ AllValid(FieldNode.Items[1].Type, TheField.Enum)) =>
              /\ FieldNode.Items[1].Enum = Literals(FieldNode.Items[1].Type, TheField.Enum)
              /\ FieldNode.Enum = <<>>
        /\ FieldNode.Items[1].Type \in {"object", "array"} =>
              FieldNode = fieldToSchema([TheField EXCEPT !.Enum = <<>>])

(***************************************************************************)
(* C20: a bound tag whose value does not parse is ignored.  For each of    *)
(* the eight bound tags, a field that carries it with such a value has     *)
(* exactly the schema of the field without the tag: the bound is absent,   *)
(* every other bound tag of the field that parses and applies to the kind  *)
(* of the field is set, and From returns.                                  *)
(***************************************************************************)
BoundField(k) ==
    CASE k = "json-maximum" -> "Maximum"
      [] k = "json-minimum" -> "Minimum"
      [] k = "json-exclusive-maximum" -> "ExclusiveMaximum"
      [] k = "json-exclusive-minimum" -> "ExclusiveMinimum"
      [] k = "json-max-items" -> "MaxItems"
      [] k = "json-min-items" -> "MinItems"
      [] k = "json-max-length" -> "MaxLength"
      [] k = "json-min-length" -> "MinLength"

\* strconv.ParseFloat for the float bounds, strconv.Atoi for the others
Parses(k, v) ==
    IF k \in FloatBoundKeys THEN v \in DOMAIN FloatLits ELSE v \in DOMAIN IntLits
BoundValue(k, v) == IF k \in FloatBoundKeys THEN FloatLits[v] ELSE IntLits[v]

\* the kinds a bound tag applies to
AppliesTo(k, kind) ==
    CASE k \in FloatBoundKeys -> kind \in {"number", "integer"}
      [] k \in {"json-max-items", "json-min-items"} -> kind = "array"
      [] OTHER -> kind = "string"

WithoutTag(f, k) == [f EXCEPT !.Tags = [x \in DOMAIN f.Tags \ {k} |-> f.Tags[x]]]

C21_ReflectionNeverFails ==
    ret # None =>
        /\ ret[1] # Panic
        /\ arg.kind \in {"interface", "chan"} => ret[1] = EmptyJSON
        /\ (arg.kind = "struct" /\ arg.name = ""
            /\ arg.fields[1].Type.kind \in {"interface", "chan"}) =>
              ret[1].Properties[1]["F"].Type = ""

(***************************************************************************)
(* C22: on a Post or Put route, a request whose body does not decode into  *)
(* REQ is answered with status 400: its handler is never called, and the   *)
(* response carries the plain-text error only, no encoded value.           *)
(***************************************************************************)
Undecodable(r) == r.verb \in {"Post", "Put"} /\ ~r.decodable

C22_UndecodableBodyIs400 ==
    \A i \in 1..Len(reqs) :
        Undecodable(reqs[i]) =>
            /\ reqs[i].calls = 0
            /\ reqs[i].stage \in {"received", "done"}
            /\ reqs[i].stage = "done" =>
                  /\ reqs[i].w.status = 400
                  /\ \A k \in 1..Len(reqs[i].w.body) : reqs[i].w.body[k].kind = "text"

\* a Post and a Put request with bad bodies, both answered
C22_Witness ==
    /\ Len(reqs) = 2
    /\ {reqs[1].verb, reqs[2].verb} = {"Post", "Put"}
    /\ \A i \in 1..2 : Undecodable(reqs[i]) /\ reqs[i].stage = "done"

(***************************************************************************)
(* C23: on every route, when the handler returns an error the request is   *)
(* over: createResponse does not run, and the response is what the handler *)
(* wrote itself (nothing, or the status and error body of NewError).       *)
(* createResponse runs only after a handler that returned no error.        *)
(***************************************************************************)
C23_HandlerErrorSkipsResponse ==
    \A i \in 1..Len(reqs) :
        /\ (reqs[i].calls > 0 /\ Failed(reqs[i].out)) =>
              /\ reqs[i].stage = "done"
              /\ reqs[i].w = handler(NewWriter, reqs[i].out)
        /\ (reqs[i].verb # "Schema" /\ reqs[i].stage = "returned") =>
              /\ reqs[i].calls = 1
              /\ ~Failed(reqs[i].out)

\* a handler that failed through NewError and one that failed silently, on a
\* route with a request body and on one without
C23_Witness ==
    /\ Len(reqs) = 2
    /\ reqs[1].verb \in {"Get", "Delete"} /\ reqs[2].verb \in {"Post", "Put"}
    /\ {reqs[1].out, reqs[2].out} = {"error", "NewError"}
    /\ \E i \in 1..2 : reqs[i].w.status = 404

(***************************************************************************)
(* C24: serving is read-only.  A step of a route handler or of a schema    *)
(* handler leaves paths, the component schemas, the objects behind them,   *)
(* info and servers as they were, and two fetches of the document in the   *)
(* same format return the same document.                                   *)
(***************************************************************************)
IsFetch(r, format) == r.verb = "Schema" /\ r.path = format

C24_ServingIsReadOnly ==
    [][reqs' # reqs =>
        /\ UNCHANGED <<heap, paths, schemas, info, mux, regs>>
        /\ \A i, j \in 1..Len(reqs') :
              \A format \in {"json", "yaml"} :
                  (IsFetch(reqs'[i], format) /\ IsFetch(reqs'[j], format)) =>
                      reqs'[i].w = reqs'[j].w]_vars

\* the document of a Definition with a server and two operations, fetched twice
C24_Witness ==
    /\ Len(reqs) = 2
    /\ IsFetch(reqs[1], "json") /\ IsFetch(reqs[2], "json")
    /\ reqs[2].w.status = 200
    /\ Len(regs) = 2
    /\ info.Servers # <<>>

(***************************************************************************)
(* C25 (as claimed): the operations of the Definition that have an         *)
(* operationId have pairwise distinct ones.                                *)
(***************************************************************************)
OperationIdAt(pv) == heap.ops[OpAt(pv)].OperationID

C25_OperationIdsDistinct ==
    \A p, q \in Slots :
        (p # q /\ OperationIdAt(p) # "") => OperationIdAt(p) # OperationIdAt(q)

(***************************************************************************)
(* C25 (amended): the core neither makes nor checks operationIds.  Each    *)
(* operation carries the operationId its own registration's options gave   *)
(* it (none when they gave none), so two operations have distinct          *)
(* operationIds exactly when their callers gave distinct ones.             *)
(***************************************************************************)
\* the registration that wrote the slot last
OwnerOf(pv) ==
    CHOOSE i \in 1..Len(regs) :
        /\ <<regs[i].path, regs[i].verb>> = pv
        /\ \A j \in (i + 1)..Len(regs) : <<regs[j].path, regs[j].verb>> # pv

C25_OperationIdsAsGiven ==
    /\ \A pv \in Slots : OperationIdAt(pv) = WantedOperationId(regs[OwnerOf(pv)].ops)
    /\ \A p, q \in Slots :
          (OperationIdAt(p) = OperationIdAt(q))
              <=> (WantedOperationId(regs[OwnerOf(p)].ops)
                       = WantedOperationId(regs[OwnerOf(q)].ops))

\* two operations, the first named by the last of two with.OperationId options
C25_Witness ==
    /\ Cardinality(Slots) = 2
    /\ OperationIdAt(<<"/a", "Get">>) = "y"
    /\ OperationIdAt(<<"/b", "Post">>) = "x"
    /\ Len(regs[1].ops) = 3

(***************************************************************************)
(* C26 (as claimed): the options are applied in the caller's order, and no *)
(* later option loses what an earlier with.Tags, with.Param,               *)
(* with.QueryParam or with.PathParam appended: every tag and every         *)
(* parameter an option of the list adds is in the operation.               *)
(***************************************************************************)
Range(seq) == {seq[k] : k \in 1..Len(seq)}
ParamOpts == {"PathParam", "QueryParam", "CookieParam", "HeaderParam"}

C26_NothingAppendedIsLost ==
    regs # <<>> =>
        \A k \in 1..Len(LastReg.ops) :
            /\ LastReg.ops[k].opt = "Tags" =>
                  Range(LastReg.ops[k].tags) \subseteq Range(heap.ops[LastReg.op].Tags)
            /\ LastReg.ops[k].opt \in ParamOpts =>
                  LastReg.ops[k].name \in Range(ParamNames(heap, LastReg.op))
            /\ LastReg.ops[k].opt = "Param" =>
                  \A m \in 1..Len(LastReg.ops[k].params) :
                      LastReg.ops[k].params[m].Name \in Range(ParamNames(heap, LastReg.op))

(***************************************************************************)
(* C26 (amended): the options are applied to a new empty operation in the  *)
(* caller's order, each once, before the request and response schemas are  *)
(* set.  Tags and parameters are appended in option order and the last     *)
(* option to set a scalar field wins; with.Operation(t) replaces the whole *)
(* operation by the template's fields, so what earlier options had set or  *)
(* appended is lost and later options add to the template's.               *)
(***************************************************************************)
RECURSIVE WantedTags(_, _)
WantedTags(ops, i) ==
    IF i = 0 THEN <<>>
    ELSE CASE ops[i].opt = "Operation" -> CallerHeap.ops[ops[i].tpl].Tags
           [] ops[i].opt = "Tags" -> WantedTags(ops, i - 1) \o ops[i].tags
           [] OTHER -> WantedTags(ops, i - 1)

WantedDescription(ops) ==
    IF LastIndex(ops, {"Description", "Operation"}, Len(ops)) = 0 THEN ""
    ELSE IF ops[LastIndex(ops, {"Description", "Operation"}, Len(ops))].opt = "Description"
    THEN ops[LastIndex(ops, {"Description", "Operation"}, Len(ops))].s
    ELSE CallerHeap.ops[TemplateOp].Description

WantedSummary(ops) ==
    IF LastIndex(ops, {"Summary", "Operation"}, Len(ops)) = 0 THEN ""
    ELSE IF ops[LastIndex(ops, {"Summary", "Operation"}, Len(ops))].opt = "Summary"
    THEN ops[LastIndex(ops, {"Summary", "Operation"}, Len(ops))].s
    ELSE CallerHeap.ops[TemplateOp].Summary

C26_OptionsInOrder ==
    /\ \A i \in 1..Len(regs) :
          /\ heap.ops[regs[i].op].Tags = WantedTags(regs[i].ops, Len(regs[i].ops))
          /\ ParamNames(heap, regs[i].op) = WantedParams(regs[i].ops, Len(regs[i].ops))
          /\ heap.ops[regs[i].op].OperationID = WantedOperationId(regs[i].ops)
          /\ heap.ops[regs[i].op].Description = WantedDescription(regs[i].ops)
          /\ heap.ops[regs[i].op].Summary = WantedSummary(regs[i].ops)
    /\ regs # <<>> => ResponseSchema(heap, LastReg.op) = RefOnly(typeRef(LastReg.res))

\* tags appended by two options around another option, and a template that
\* took the place of what an earlier option had appended
C26_Witness ==
    /\ Len(regs) = 1
    /\ \/ /\ regs[1].ops = <<OptTags(<<"a">>), OptOperationId("x"), OptTags(<<"b", "c">>)>>
          /\ heap.ops[regs[1].op].Tags = <<"a", "b", "c">>
       \/ /\ regs[1].ops = <<OptTags(<<"a">>), OptOperation(TemplateOp), OptTags(<<"b", "c">>)>>
          /\ heap.ops[regs[1].op].Tags = <<"tpl", "b", "c">>

(***************************************************************************)
(* C27: the bound tags go by the kind the node has once the json-type tag  *)
(* is applied: that of the tag when there is one, that of the Go type      *)
(* otherwise.  A valid bound of a family that matches the kind is set      *)
(* (numeric bounds on number and integer; lengths, pattern and format on   *)
(* string; item counts on array); one of another family is not set and     *)
(* leaves the schema of the field as it is without the tag.                *)
(***************************************************************************)
GateKeys == BoundKeys \cup {"json-format", "json-pattern"}

GatedField(k) ==
    CASE k = "json-format" -> "Format"
      [] k = "json-pattern" -> "Pattern"
      [] OTHER -> BoundField(k)

GatedValue(k, v) == IF k \in BoundKeys THEN BoundValue(k, v) ELSE v
GateParses(k, v) == IF k \in BoundKeys THEN Parses(k, v) ELSE v # ""
GateApplies(k, kind) == IF k \in BoundKeys THEN AppliesTo(k, kind) ELSE kind = "string"

\* the kind after the json-type override
ForcedKind(f) ==
    IF TagGet(f, "json-type") # "" THEN TagGet(f, "json-type") ELSE typeToSchema(f.Type).Type

FromGated == FromStruct /\ arg \in BoundStructs \cup GatedStructs

C27_BoundsGatedByKind ==
    FromGated =>
        /\ ret[1] # Panic
        /\ FieldNode.Type = ForcedKind(TheField)
        /\ \A k \in GateKeys \cap DOMAIN TheField.Tags :
              GateParses(k, TheField.Tags[k]) =>
                  IF GateApplies(k, ForcedKind(TheField))
                  THEN FieldNode[GatedField(k)] = Some(GatedValue(k, TheField.Tags[k]))
                  ELSE /\ FieldNode[GatedField(k)] = None
                       /\ FieldNode = fieldToSchema(WithoutTag(TheField, k))

\* a string field forced to integer takes the numeric bounds and no string
\* bound
C27_Witness ==
    /\ FromGated
    /\ arg = Tagged(StringT, <<>>, GateTags("integer"))
    /\ FieldNode.Type = "integer"
    /\ FieldNode.Minimum = Some(BoundValue("json-minimum", "5"))
    /\ FieldNode.MaxLength = None
    /\ FieldNode.Pattern = None

(***************************************************************************)
(* C28 (as claimed): an operation does not change once its registration    *)
(* has returned.  A later registration of another <<path, verb>> leaves    *)
(* its fields, parameters, tags, responses and request body as they were,  *)
(* and its 200 response still refers to its own response type, also when   *)
(* the two registrations were given the same response object or template.  *)
(***************************************************************************)
C28_OperationsImmutable ==
    [][Len(regs') = Len(regs) + 1 =>
        \A i \in 1..Len(regs) :
            <<regs[i].path, regs[i].verb>> # <<regs'[Len(regs')].path, regs'[Len(regs')].verb>> =>
                /\ OpView(heap', regs[i].op) = OpView(heap, regs[i].op)
                /\ ResponseSchema(heap', regs[i].op) = RefOnly(typeRef(regs[i].res))]_vars

(***************************************************************************)
(* C29 (as claimed): two registrations with different response types,      *)
(* named or unnamed, get different names in components.schemas, and the    *)
(* entry the 200 response of each operation refers to is schema.From of    *)
(* that operation's own response type.                                     *)
(***************************************************************************)
C29_DistinctTypesDistinctNames ==
    /\ \A i, j \in 1..Len(regs) :
          regs[i].res # regs[j].res => typeUri(regs[i].res) # typeUri(regs[j].res)
    /\ \A pv \in Slots :
          (\E i \in 1..Len(regs) : regs[i].op = OpAt(pv)) =>
              /\ ResponseSchema(heap, OpAt(pv)) = RefOnly(typeRef(regs[OwnerOf(pv)].res))
              /\ schemas[typeUri(regs[OwnerOf(pv)].res)] = From(regs[OwnerOf(pv)].res)

(***************************************************************************)
(* C30 (as claimed): every call of Get, Post, Put or Delete returns,       *)
(* whatever its type parameters, and the operation is then in its slot     *)
(* with a 200 response.                                                    *)
(***************************************************************************)
C30_RegistrationIsTotal ==
    /\ ~panicked
    /\ regs # <<>> =>
          /\ paths[LastReg.path][LastReg.verb] = LastReg.op
          /\ ResponseOf(heap, LastReg.op, "200") # 0
====
